---- MODULE Spec2Model ----
(***************************************************************************)
(* The screen-based detection engine of scripts/scan.py: the hotkey        *)
(* listener (on_press), the sequential scan loop of main(), and the        *)
(* profile-keyed result store (_load_all_results, save_results_profile).   *)
(* Beside the run of main() (Spec) and the store on its own (SpecStore)    *)
(* there are: the run sharing results.json with one update request of      *)
(* scripts/serve.py (SpecShared), and the functions _resolve_profile,      *)
(* _dedup_overlaps, _count_icons_on_screen_multiscale, gather_names and    *)
(* make_payload each called on its own over bounded sets of arguments      *)
(* (SpecResolve, SpecDedup, SpecMatch, SpecGather, SpecPayload).  Further  *)
(* specifications: the listener with handlers that raise (SpecListener),  *)
(* the run with counted pause presses (SpecPause), the run under weak      *)
(* fairness of the main thread (SpecLive), the content of the search field *)
(* under click_and_type (SpecField), the writers of counts in scan.py,     *)
(* serve.py and architracker/state.py (SpecEdits), and the two launchers   *)
(* of the scanner (SpecLaunch).                                            *)
(*                                                                         *)
(* Python values are modelled as follows.                                  *)
(*   - a dict with string keys is a TLA+ function with a string domain     *)
(*     (a record); EmptyDict is {}.                                       *)
(*   - the counts dict of main() is insertion ordered and is iterated in   *)
(*     that order by make_payload, so it is a sequence of <<name, count>>  *)
(*     pairs with the dict's update rule (DictSet).                        *)
(*   - None is the empty tuple <<>> where the other values are tuples.     *)
(*   - a file is [st, data]: st is "absent", "corrupt" (not JSON, cut      *)
(*     short, or not readable), "json" (a complete JSON object, held in    *)
(*     data), "list" (a JSON array with elements) or "scalar" (a JSON      *)
(*     number or true).  The                                               *)
(*     values written are str-keyed dicts of ints, strs, bools and lists,  *)
(*     which json.dump/json.load carry over unchanged, so a complete file  *)
(*     holds the dict that was dumped.                                     *)
(***************************************************************************)
EXTENDS Integers, Sequences, FiniteSets, TLC

\* ---------------------------------------------------------------- config
SAVE_EVERY == 12

\* ---------------------------------------------------------------- bounds
\* Largest catalog (number of unique names returned by gather_names).
MaxNames == 30
\* Largest clock reading of datetime.utcnow() (the payload's timestamp).
MaxTime == 2
\* Most presses of the pause hotkey counted in a run.
MaxPresses == 3
\* Most scanner processes spawned by the launchers.
MaxScans == 3
\* Largest count an edit of the proxy or the dashboard raises a name to.
MaxEdited == 1

NameCountChoices == {0, 1, 2 * SAVE_EVERY, MaxNames}
Times == 1..MaxTime
\* Pointer positions the anchor hotkey can capture.
MousePositions == {<<10, 20>>, <<30, 40>>}
ProfileIds == {"default", "kourial", "mikhal"}

None == <<>>
EmptyDict == [k \in {} |-> 0]

\* Mutant: the lower bound is not applied.
MaxOfSecond(a, b) == b

Max(a, b) == IF a >= b THEN a ELSE b

\* ------------------------------------------------- dicts with string keys
\* d[k] = v
Put(d, k, v) == [x \in (DOMAIN d) \cup {k} |-> IF x = k THEN v ELSE d[x]]
\* d.update(e)
Update(d, e) == [x \in (DOMAIN d) \cup (DOMAIN e) |-> IF x \in DOMAIN e THEN e[x] ELSE d[x]]
\* for k in list(d.keys()): if k not in keep: del d[k]
Keep(d, keep) == [x \in (DOMAIN d) \cap keep |-> d[x]]

\* ------------------------------------------ the insertion-ordered counts
DictHas(d, k) == \E i \in 1..Len(d) : d[i][1] = k
DictGet(d, k) == d[CHOOSE i \in 1..Len(d) : d[i][1] = k][2]
DictKeys(d) == [i \in 1..Len(d) |-> d[i][1]]
\* Mutant: a new key goes in front of the others.
DictSetAtFront(d, k, v) == <<<<k, v>>>> \o d

\* counts[name] = c
DictSet(d, k, v) ==
    IF DictHas(d, k)
    THEN [i \in 1..Len(d) |-> IF d[i][1] = k THEN <<k, v>> ELSE d[i]]
    ELSE Append(d, <<k, v>>)

RECURSIVE SumSeq(_)
SumSeq(s) == IF Len(s) = 0 THEN 0 ELSE Head(s) + SumSeq(Tail(s))

\* ------------------------------------------------------------ make_payload
IsNeeded(e) == e[2] <= 0
\* Mutant: a single icon counts as a duplicate.
IsDuplicateFromOne(e) == e[2] >= 1
IsDuplicate(e) == e[2] > 1
IsFound(e) == e[2] >= 1

make_payload(nms, cnts, scnd, now, has_cv2) ==
    LET nd == SelectSeq(cnts, IsNeeded)
        dp == SelectSeq(cnts, IsDuplicate)
        needed == [i \in 1..Len(nd) |-> nd[i][1]]
        duplicates == [i \in 1..Len(dp) |->
                         [name |-> dp[i][1], count |-> dp[i][2],
                          extra |-> Max(0, dp[i][2] - 1)]]
    IN  [timestamp |-> now,
         scanned |-> scnd,
         total |-> Len(nms),
         counts |-> cnts,
         needed |-> needed,
         duplicates |-> duplicates,
         totalDuplicates |-> SumSeq([i \in 1..Len(duplicates) |-> duplicates[i].extra]),
         totalFound |-> Len(SelectSeq(cnts, IsFound)),
         totalFoundItems |-> SumSeq([i \in 1..Len(cnts) |-> cnts[i][2]]),
         note |-> "F8=start F10=pause/resume",
         matchMode |-> IF has_cv2 THEN "cv2_multiscale" ELSE "pyautogui_exact",
         grayscale |-> TRUE]

\* ------------------------------------------------------- the result store
AbsentFile == [st |-> "absent", data |-> EmptyDict]
CorruptFile == [st |-> "corrupt", data |-> EmptyDict]
JsonFile(d) == [st |-> "json", data |-> d]
ListFile == [st |-> "list", data |-> EmptyDict]
ScalarFile == [st |-> "scalar", data |-> EmptyDict]

\* Line 383 of _load_all_results, 'profiles' in data, outside the try block
\* of lines 376-380: on a number or a boolean the operator `in` raises
\* TypeError (on a list it is a membership test, which fails).
LoadRaises(file) == file.st = "scalar"

\* Mutant: a flat document is read as an empty store.
WrapFlatDropped(data) == [profiles |-> EmptyDict, activeProfile |-> "default"]

\* Lines 385-388: the old flat format becomes the entry of profile default.
WrapFlat(data) == Update([profiles |-> [default |-> data], activeProfile |-> "default"], data)

\* _load_all_results where it returns: a missing file and a file that open or
\* json.load rejects both give {}.
\* Every 'profiles' value of a modelled document is a dict.
_load_all_results(file) ==
    LET data == IF file.st = "json" THEN file.data ELSE EmptyDict
    IN  IF "profiles" \in DOMAIN data
        THEN data
        ELSE IF "counts" \in DOMAIN data
             THEN WrapFlat(data)
             ELSE [profiles |-> EmptyDict, activeProfile |-> "default"]

\* Mutant: the profiles map is rebuilt with the written profile alone.
UpsertProfilesAlone(profiles, profile, payload) == [x \in {profile} |-> payload]

\* save_results_profile, lines 398-406: the document that is dumped.
UpsertProfiles(profiles, profile, payload) == Put(profiles, profile, payload)

\* Mutant: lines 403-405 are missing.
MirrorTopLevelOver(data, payload) == Update(data, payload)

MirrorTopLevel(data, payload) == Update(Keep(data, {"profiles", "activeProfile"}), payload)

\* Mutant: line 401 is missing.
SetActiveSkipped(data, profile) == data

\* Line 401.
SetActive(data, profile) == Put(data, "activeProfile", profile)

UpsertDoc(data, profile, payload) ==
    LET profiles == data.profiles
        d1 == Put(data, "profiles", UpsertProfiles(profiles, profile, payload))
        d2 == SetActive(d1, profile)
    IN  MirrorTopLevel(d2, payload)

\* ------------------------------------------------------------------ state
VARIABLES
    pc,              \* position of the main thread in main()
    names,           \* main: names (unique, in catalog order)
    profile,         \* main: the resolved profile
    inventory,       \* what the game shows: name -> icons left after filtering
    cv2,             \* whether OpenCV was importable
    pack_archi_enabled,
    kb_listener,     \* TRUE while the pynput listener thread runs
    start_event,     \* threading.Event
    search_bar_pos,  \* the anchor; None until captured
    scan_paused,
    pos,             \* main: pos, the anchor as returned by wait_for_start_hotkey
    i,               \* main: how many names the for loop has taken; name = names[i]
    c,               \* main: c
    matcher_failed,  \* main: the except branch of lines 469-471 was taken for this name
    counts,          \* main: counts
    scanned,         \* main: scanned
    payload,         \* the payload handed to save_results_profile
    save_kind,       \* which call of save_results_profile runs: line 477 or line 483
    data,            \* save_results_profile: data
    results,         \* the file results.json
    tmp,             \* the file results.json.tmp
    writes,          \* history: the os.replace commits of this run, in order
    written,         \* history: profile -> <<the payload last committed for it>>
    abort,           \* history: where the pointer fail-safe was first raised
    call             \* a call made from outside main(): its arguments, then its result

vars == <<pc, names, profile, inventory, cv2, pack_archi_enabled, kb_listener,
          start_event, search_bar_pos, scan_paused, pos, i, c, matcher_failed,
          counts, scanned, payload, save_kind, data, results, tmp, writes, written, abort,
          call>>

\* main's locals that end with the process.
localVars == <<i, c, matcher_failed, payload, save_kind, data>>
fileVars == <<results, tmp, writes, written>>
inputVars == <<names, profile, inventory, cv2, pack_archi_enabled, call>>
listenerVars == <<start_event, search_bar_pos, scan_paused>>

\* What the game shows after the search box filters on a name.
Stock(n) ==
    CASE n = 1 -> 0
      [] n = 2 -> 2
      [] n = 3 -> 5
      [] n = SAVE_EVERY + 1 -> 1
      [] OTHER -> 0

\* A payload another run left in the store.
OldPayload(t) == make_payload(<<1, 2>>, <<<<1, 1>>, <<2, 0>>>>, 2, t, FALSE)

ProfiledDoc(profiles, active) ==
    Update([profiles |-> profiles, activeProfile |-> active], profiles[active])

\* The environments a run starts in: OpenCV importable or not, ARCHI_PACK_MODE,
\* the resolved profile, the inventory on screen, the store left by earlier runs.
Environments ==
    { [cv2 |-> TRUE, pack |-> FALSE, profile |-> "default",
       inventory |-> [n \in 1..MaxNames |-> Stock(n)],
       results |-> AbsentFile],
      [cv2 |-> FALSE, pack |-> TRUE, profile |-> "kourial",
       inventory |-> [n \in 1..MaxNames |-> Stock(n)],
       results |-> JsonFile(ProfiledDoc([mikhal |-> OldPayload(1)], "mikhal"))],
      [cv2 |-> TRUE, pack |-> TRUE, profile |-> "kourial",
       inventory |-> [n \in 1..MaxNames |-> 0],
       results |-> JsonFile(ProfiledDoc([kourial |-> OldPayload(1),
                                         mikhal |-> OldPayload(1)], "kourial"))] }

NoAbort == "none"
NoCall == [fn |-> "none"]
NothingWritten == [q \in ProfileIds |-> <<>>]
NoPayload == EmptyDict

Terminal == {"Completed", "Interrupted", "Uncaught", "Killed", "Fatal"}
\* Lines 460-486: the positions inside the try block of main().
InTry == {"for", "while", "sleep", "click", "paste", "type", "settle", "detect",
          "record", "save_load", "save_open", "save_dump", "save_replace"}
SaveSteps == {"save_load", "save_open", "save_dump", "save_replace"}

Init ==
    /\ pc = "main"
    /\ names \in {[n \in 1..len |-> n] : len \in NameCountChoices}
    /\ \E env \in Environments :
         /\ profile = env.profile
         /\ inventory = env.inventory
         /\ cv2 = env.cv2
         /\ pack_archi_enabled = env.pack
         /\ results = env.results
    /\ kb_listener = FALSE
    /\ start_event = FALSE
    /\ search_bar_pos = None
    /\ scan_paused = FALSE
    /\ pos = None
    /\ i = 0
    /\ c = 0
    /\ matcher_failed = FALSE
    /\ counts = <<>>
    /\ scanned = 0
    /\ payload = NoPayload
    /\ save_kind = "none"
    /\ data = EmptyDict
    /\ tmp = AbsentFile
    /\ writes = <<>>
    /\ written = NothingWritten
    /\ abort = NoAbort
    /\ call = NoCall

\* -------------------------------------------------------------- listener
\* Mutant: the anchor hotkey acts on every press.
AnchorHotkeyActsAlways == TRUE

\* The test of line 109: the anchor hotkey acts while the event is not set.
AnchorHotkeyActs == ~start_event

\* on_press, F8 branch (lines 109-113).  pyautogui.position() raising is
\* swallowed by line 119 before anything is assigned: that case changes nothing.
on_press_f8(mouse) ==
    /\ kb_listener
    /\ IF AnchorHotkeyActs
       THEN /\ search_bar_pos' = mouse
            /\ start_event' = TRUE
       ELSE UNCHANGED <<search_bar_pos, start_event>>
    /\ UNCHANGED <<pc, scan_paused, pos, localVars, counts, scanned, fileVars, inputVars,
                   kb_listener, abort>>

\* Mutant: the pause hotkey sets the flag.
PauseToggledOn(paused) == TRUE

\* Line 116: scan_paused = not scan_paused.
PauseToggled(paused) == ~paused

\* The presses of the pause hotkey are counted, up to MaxPresses, in the
\* specification that records them in call.
PressesCounted == call.fn = "on_press"

\* on_press, F10 branch (lines 115-118).
on_press_f10 ==
    /\ kb_listener
    /\ PressesCounted => call.presses < MaxPresses
    /\ scan_paused' = PauseToggled(scan_paused)
    /\ call' = IF PressesCounted THEN [call EXCEPT !.presses = @ + 1] ELSE call
    /\ UNCHANGED <<pc, start_event, search_bar_pos, pos, localVars, counts, scanned, fileVars,
                   names, profile, inventory, cv2, pack_archi_enabled, kb_listener, abort>>

\* ------------------------------------------------------------ main thread
\* The process ends in `state`: the listener thread (a daemon thread, stopped by
\* line 486 when the try block was entered) and main's locals end with it.
\* pos, counts and scanned keep what the run had when it ended.
ProcessExit(state) ==
    /\ pc' = state
    /\ kb_listener' = FALSE
    /\ i' = 0
    /\ c' = 0
    /\ matcher_failed' = FALSE
    /\ payload' = NoPayload
    /\ save_kind' = "none"
    /\ data' = EmptyDict

\* An exception leaves the try block of main(): line 486 runs, and since the
\* handler of lines 490-493 names KeyboardInterrupt only, the exception leaves
\* the process with a traceback.
LeaveUncaught == ProcessExit("Uncaught")

\* The fail-safe check of a pyautogui call raised FailSafeException.
RaiseFailSafe(step) ==
    abort' = IF abort = NoAbort THEN step ELSE abort

\* Mutant: a missing input file is passed over.
StartupFailureIgnored == "wait"

\* Lines 325-328 raise FileNotFoundError out of main(), which lines 490-493 do
\* not catch: the interpreter prints the traceback and exits with status 1.
StartupFailure == "Fatal"

\* main, lines 436-451, and start_hotkey_listener (line 139).  A missing
\* template or catalog raises FileNotFoundError out of main.
MainStart(files_exist) ==
    /\ pc = "main"
    /\ IF files_exist
       THEN /\ pc' = "wait"
            /\ kb_listener' = TRUE
       ELSE /\ pc' = StartupFailure
            /\ UNCHANGED kb_listener
    /\ UNCHANGED <<listenerVars, pos, localVars, counts, scanned, fileVars, inputVars, abort>>

\* Mutant: the wait returns at once (a wait with an expired timeout).
EventWaitReturnsAtOnce == TRUE

\* Line 142: start_event.wait() returns once the event is set.
EventWaitReturns == start_event

\* wait_for_start_hotkey, lines 142-145, and lines 457-458.
WaitForStartHotkey ==
    /\ pc = "wait"
    /\ EventWaitReturns
    /\ IF search_bar_pos = None
       THEN /\ LeaveUncaught
            /\ UNCHANGED <<pos, counts, scanned>>
       ELSE /\ pc' = "for"
            /\ pos' = search_bar_pos
            /\ counts' = <<>>
            /\ scanned' = 0
            /\ UNCHANGED <<kb_listener, i, c, matcher_failed, payload, save_kind, data>>
    /\ UNCHANGED <<listenerVars, fileVars, inputVars, abort>>

\* Line 461: the for loop takes the next name, or ends and lines 481-483 run.
ForNext(now) ==
    /\ pc = "for"
    /\ IF i < Len(names)
       THEN /\ i' = i + 1
            /\ pc' = "while"
            /\ UNCHANGED <<payload, save_kind>>
       ELSE /\ payload' = make_payload(names, counts, scanned, now, cv2)
            /\ save_kind' = "final"
            /\ pc' = "save_load"
            /\ UNCHANGED i
    /\ UNCHANGED <<pos, listenerVars, c, matcher_failed, counts, scanned, data, fileVars,
                   inputVars, kb_listener, abort>>

\* Mutant: the pause flag is not consulted.
PauseGateOpen == "click"

\* Mutant: the loop never leaves the polling sleep.
PauseGateShut == "sleep"

\* Line 462: the test of the while loop.
PauseGate == IF scan_paused THEN "sleep" ELSE "click"

WhilePaused ==
    /\ pc = "while"
    /\ pc' = PauseGate
    /\ UNCHANGED <<listenerVars, pos, i, c, matcher_failed, payload, save_kind, data,
                   counts, scanned, fileVars, inputVars, kb_listener, abort>>

\* Line 463: time.sleep(0.15).
Sleep ==
    /\ pc = "sleep"
    /\ pc' = "while"
    /\ UNCHANGED <<listenerVars, pos, i, c, matcher_failed, payload, save_kind, data,
                   counts, scanned, fileVars, inputVars, kb_listener, abort>>

\* click_and_type, lines 150-151: the focus click.
Click(failsafe) ==
    /\ pc = "click"
    /\ IF failsafe
       THEN /\ RaiseFailSafe("click")
            /\ LeaveUncaught
       ELSE /\ pc' = "paste"
            /\ UNCHANGED <<abort, kb_listener, localVars>>
    /\ UNCHANGED <<listenerVars, pos, counts, scanned, fileVars, inputVars>>

\* click_and_type, lines 153-161: the paste path; any Exception (the
\* clipboard's, or the fail-safe of a hotkey call) starts the type path.
Paste(outcome) ==
    /\ pc = "paste"
    /\ pc' = IF outcome = "ok" THEN "settle" ELSE "type"
    /\ IF outcome = "failsafe" THEN RaiseFailSafe("paste") ELSE UNCHANGED abort
    /\ UNCHANGED <<listenerVars, pos, i, c, matcher_failed, payload, save_kind, data,
                   counts, scanned, fileVars, inputVars, kb_listener>>

\* click_and_type, lines 162-166: the type path, outside any handler.
Type(outcome) ==
    /\ pc = "type"
    /\ IF outcome = "ok"
       THEN /\ pc' = "settle"
            /\ UNCHANGED <<abort, kb_listener, localVars>>
       ELSE /\ IF outcome = "failsafe" THEN RaiseFailSafe("type") ELSE UNCHANGED abort
            /\ LeaveUncaught
    /\ UNCHANGED <<listenerVars, pos, counts, scanned, fileVars, inputVars>>

\* Line 466: time.sleep(POST_TYPE_DELAY).
Settle ==
    /\ pc = "settle"
    /\ pc' = "detect"
    /\ UNCHANGED <<listenerVars, pos, i, c, matcher_failed, payload, save_kind, data,
                   counts, scanned, fileVars, inputVars, kb_listener, abort>>

\* Mutant: the handler records an error marker instead of 0.
MatcherFailureMarker == 0 - 1

\* Line 471: the count recorded by the handler of a Matcher exception.
MatcherFailureCount == 0

\* Lines 467-471: count_icons_on_screen.  The only pyautogui calls with a
\* fail-safe check in it are the clicks of highlight_first_match, made in pack
\* mode when a box was found; FailSafeException is an Exception.
Detect(outcome) ==
    /\ pc = "detect"
    /\ outcome = "failsafe" => pack_archi_enabled /\ inventory[names[i]] > 0
    /\ IF outcome = "ok"
       THEN /\ c' = inventory[names[i]]
            /\ matcher_failed' = FALSE
       ELSE /\ c' = MatcherFailureCount
            /\ matcher_failed' = TRUE
    /\ IF outcome = "failsafe" THEN RaiseFailSafe("detect") ELSE UNCHANGED abort
    /\ pc' = "record"
    /\ UNCHANGED <<listenerVars, pos, i, payload, save_kind, data, counts, scanned,
                   fileVars, inputVars, kb_listener>>

\* Mutant: the checkpoint test is off by one.
CheckpointDueOffByOne(n) == (n + 1) % SAVE_EVERY = 0

\* Line 475.
CheckpointDue(n) == n % SAVE_EVERY = 0

\* Lines 472-476.
Record(now) ==
    /\ pc = "record"
    /\ counts' = DictSet(counts, names[i], c)
    /\ scanned' = scanned + 1
    /\ matcher_failed' = FALSE
    /\ c' = 0
    /\ IF CheckpointDue(scanned')
       THEN /\ payload' = make_payload(names, counts', scanned', now, cv2)
            /\ save_kind' = "checkpoint"
            /\ pc' = "save_load"
       ELSE /\ pc' = "for"
            /\ UNCHANGED <<payload, save_kind>>
    /\ UNCHANGED <<listenerVars, pos, i, data, fileVars, inputVars, kb_listener, abort>>

\* save_results_profile, lines 397-406.
SaveLoad ==
    /\ pc = "save_load"
    /\ IF LoadRaises(results)
       THEN LeaveUncaught
       ELSE /\ data' = UpsertDoc(_load_all_results(results), profile, payload)
            /\ pc' = "save_open"
            /\ UNCHANGED <<i, c, matcher_failed, payload, save_kind, kb_listener>>
    /\ UNCHANGED <<listenerVars, pos, counts, scanned, fileVars, inputVars, abort>>

\* Mutant: the document is written in place.
SaveTargetInPlace == "results"

\* Line 407: the file that line 408 opens and line 409 writes.
SaveTarget == "tmp"

\* Line 408: open(tmp, 'w') creates or truncates the file it names.
OpenForWriting(target) ==
    /\ tmp' = IF target = "tmp" THEN CorruptFile ELSE tmp
    /\ results' = IF target = "results" THEN CorruptFile ELSE results

SaveOpen ==
    /\ pc = "save_open"
    /\ OpenForWriting(SaveTarget)
    /\ pc' = "save_dump"
    /\ UNCHANGED <<listenerVars, pos, i, c, matcher_failed, payload, save_kind, data,
                   counts, scanned, writes, written, inputVars, kb_listener, abort>>

\* Line 409: json.dump and the close of the with block; an OSError while
\* writing leaves the file cut short and leaves main().
SaveDump(ok) ==
    /\ pc = "save_dump"
    /\ IF ok
       THEN /\ tmp' = JsonFile(data)
            /\ pc' = "save_replace"
            /\ UNCHANGED <<kb_listener, i, c, matcher_failed, payload, save_kind, data>>
       ELSE /\ LeaveUncaught
            /\ UNCHANGED tmp
    /\ UNCHANGED <<listenerVars, pos, counts, scanned, results, writes, written, inputVars,
                   abort>>

\* Line 410: os.replace(tmp, path); then line 478, or lines 484-486.
SaveReplace ==
    /\ pc = "save_replace"
    /\ results' = tmp
    /\ tmp' = AbsentFile
    /\ writes' = Append(writes, [kind |-> save_kind, scanned |-> scanned, profile |-> profile])
    /\ written' = [written EXCEPT ![profile] = <<payload>>]
    /\ IF save_kind = "checkpoint"
       THEN /\ pc' = "for"
            /\ data' = EmptyDict
            /\ payload' = NoPayload
            /\ save_kind' = "none"
            /\ UNCHANGED <<kb_listener, i, c, matcher_failed>>
       ELSE ProcessExit("Completed")
    /\ UNCHANGED <<listenerVars, pos, counts, scanned, inputVars, abort>>

\* ---------------------------------------------------------------- signals
\* Lines 485-486 and 490-493: SIGINT raises KeyboardInterrupt in the main
\* thread wherever it is; inside the try block line 486 runs on the way out.
KeyboardInterrupt ==
    /\ pc \in {"main", "wait"} \cup InTry
    /\ ProcessExit("Interrupted")
    /\ UNCHANGED <<listenerVars, pos, counts, scanned, fileVars, inputVars, abort>>

\* SIGTERM (terminate() of the launcher) has no handler: the process ends.
Terminate ==
    /\ pc \notin Terminal
    /\ ProcessExit("Killed")
    /\ UNCHANGED <<listenerVars, pos, counts, scanned, fileVars, inputVars, abort>>

Outcomes == {"ok", "error", "failsafe"}

Next ==
    \/ \E mouse \in MousePositions : on_press_f8(mouse)
    \/ on_press_f10
    \/ \E files_exist \in BOOLEAN : MainStart(files_exist)
    \/ WaitForStartHotkey
    \/ \E now \in Times : ForNext(now)
    \/ WhilePaused
    \/ Sleep
    \/ \E failsafe \in BOOLEAN : Click(failsafe)
    \/ \E outcome \in Outcomes : Paste(outcome)
    \/ \E outcome \in Outcomes : Type(outcome)
    \/ Settle
    \/ \E outcome \in Outcomes : Detect(outcome)
    \/ \E now \in Times : Record(now)
    \/ SaveLoad
    \/ SaveOpen
    \/ \E ok \in BOOLEAN : SaveDump(ok)
    \/ SaveReplace
    \/ KeyboardInterrupt
    \/ Terminate

Spec == Init /\ [][Next]_vars

\* ------------------------------------------------------ the store alone
\* save_results_profile applied, start to end, to any document: the calls
\* upsert(p, payload) of the result store in any order.
StoreNames == <<1, 2, 3>>
StoreCounts == {<<>>, <<<<1, 0>>>>, <<<<1, 0>>, <<2, 2>>, <<3, 5>>>>}
StorePayloads ==
    {make_payload(StoreNames, cnts, Len(cnts), now, TRUE) : cnts \in StoreCounts, now \in Times}

\* An entry with a field make_payload does not write.
ForeignPayload == Put(OldPayload(1), "owner", "someone")

StoreInitialFiles ==
    { AbsentFile,
      CorruptFile,
      ListFile,
      ScalarFile,
      JsonFile(EmptyDict),
      JsonFile(OldPayload(1)),
      JsonFile(ForeignPayload),
      JsonFile(Put(OldPayload(2), "activeProfile", "mikhal")),
      JsonFile(ProfiledDoc([mikhal |-> OldPayload(1)], "mikhal")),
      JsonFile(ProfiledDoc([default |-> ForeignPayload, kourial |-> OldPayload(1)], "default")) }

StoreInit ==
    /\ pc = "store"
    /\ results \in StoreInitialFiles
    /\ names = StoreNames
    /\ profile = "default"
    /\ inventory = [n \in 1..MaxNames |-> 0]
    /\ cv2 = TRUE
    /\ pack_archi_enabled = FALSE
    /\ kb_listener = FALSE
    /\ start_event = FALSE
    /\ search_bar_pos = None
    /\ scan_paused = FALSE
    /\ pos = None
    /\ i = 0
    /\ c = 0
    /\ matcher_failed = FALSE
    /\ counts = <<>>
    /\ scanned = 0
    /\ payload = NoPayload
    /\ save_kind = "none"
    /\ data = EmptyDict
    /\ tmp = AbsentFile
    /\ writes = <<>>
    /\ written = NothingWritten
    /\ abort = NoAbort
    /\ call = NoCall

\* save_results_profile(path, p, pl), lines 396-410, run to its end: to the
\* rename of line 410, or to the exception line 397 lets through ("raised";
\* the file is as it was, and every later call ends the same way).
StoreUpsert(p, pl) ==
    /\ pc = "store"
    /\ profile' = p
    /\ payload' = pl
    /\ IF LoadRaises(results)
       THEN /\ pc' = "raised"
            /\ UNCHANGED <<data, results, tmp, written>>
       ELSE /\ data' = UpsertDoc(_load_all_results(results), p, pl)
            /\ results' = JsonFile(data')
            /\ tmp' = AbsentFile
            /\ written' = [written EXCEPT ![p] = <<pl>>]
            /\ UNCHANGED pc
    /\ UNCHANGED <<names, inventory, cv2, pack_archi_enabled, kb_listener, listenerVars,
                   pos, i, c, matcher_failed, counts, scanned, save_kind, writes, abort, call>>

StoreNext == \E p \in ProfileIds, pl \in StorePayloads : StoreUpsert(p, pl)

SpecStore == StoreInit /\ [][StoreNext]_vars

\* ------------------------------------- the proxy writing the same file
\* scripts/serve.py keeps its results.json beside scan.py, so the proxy's
\* POST /api/results/update and a running scan work on one file.  The proxy
\* serialises its own requests with _results_lock, a threading.Lock of the
\* proxy process; save_results_profile of scan.py takes no lock.

\* serve.py, _load_all_results.
serve_load_all_results(file) ==
    LET doc == IF file.st = "json" THEN file.data ELSE EmptyDict
    IN  IF "profiles" \in DOMAIN doc
        THEN doc
        ELSE IF "counts" \in DOMAIN doc
             THEN Update([profiles |-> [default |-> doc], activeProfile |-> "default"], doc)
             ELSE [profiles |-> EmptyDict, activeProfile |-> "default"]

\* serve.py, _read_profile_payload.
_read_profile_payload(all_data, prof, now) ==
    IF prof \in DOMAIN all_data.profiles
    THEN all_data.profiles[prof]
    ELSE [counts |-> <<>>, timestamp |-> now]

\* serve.py, _write_profile_payload.
_write_profile_payload(all_data, prof, pl) ==
    LET d1 == Put(all_data, "profiles", Put(all_data.profiles, prof, pl))
        d2 == Put(d1, "activeProfile", prof)
    IN  Update(Keep(d2, {"profiles", "activeProfile"}), pl)

\* state.py, _load_all_results (lines 141-156): isinstance(raw, dict) comes
\* first in both tests; the empty store names kourial as active.
state_load_all_results(file) ==
    LET raw == IF file.st = "json" THEN file.data ELSE EmptyDict
    IN  IF "profiles" \in DOMAIN raw
        THEN raw
        ELSE IF "counts" \in DOMAIN raw
             THEN Update([profiles |-> [default |-> raw], activeProfile |-> "default"], raw)
             ELSE [profiles |-> EmptyDict, activeProfile |-> "kourial"]

\* state.py, _write_profile_payload (lines 166-175).
state_write_profile_payload(all_data, prof, pl) ==
    LET profiles == Put(all_data.profiles, prof, pl)
        d1 == Put(Put(all_data, "profiles", profiles), "activeProfile", prof)
    IN  Update([k \in DOMAIN d1 \cap {"profiles", "activeProfile"} |-> d1[k]], pl)

\* counts.get(n, 0)
CountOf(cnts, n) == IF DictHas(cnts, n) THEN DictGet(cnts, n) ELSE 0

\* serve.py, _recompute_derived_fields; all_names is _gather_all_names().
_recompute_derived_fields(pl, all_names) ==
    LET cnts == pl.counts
    IN  IF Len(all_names) = 0
        THEN Update(pl, [needed |-> <<>>,
                         duplicates |-> <<>>,
                         totalDuplicates |-> 0,
                         totalFound |-> Len(SelectSeq(cnts, IsFound)),
                         totalFoundItems |-> SumSeq([k \in 1..Len(cnts) |-> cnts[k][2]])])
        ELSE LET v == [k \in 1..Len(all_names) |-> <<all_names[k], CountOf(cnts, all_names[k])>>]
                 nd == SelectSeq(v, IsNeeded)
                 dp == SelectSeq(v, IsDuplicate)
                 dups == [k \in 1..Len(dp) |->
                            [name |-> dp[k][1], count |-> dp[k][2],
                             extra |-> Max(0, dp[k][2] - 1)]]
             IN  Update(pl, [total |-> Len(all_names),
                             needed |-> [k \in 1..Len(nd) |-> nd[k][1]],
                             duplicates |-> dups,
                             totalDuplicates |-> SumSeq([k \in 1..Len(dups) |-> dups[k].extra]),
                             totalFound |-> Len(SelectSeq(v, IsFound)),
                             totalFoundItems |-> SumSeq([k \in 1..Len(v) |-> v[k][2]])])

\* The requests POST /api/results/update?profile=p with body {"set": n} or
\* {"delta": n}, for the name names[1].
UpdateRequests ==
    {[fn |-> "update_result_count", done |-> FALSE, prof |-> p, name |-> 1, body |-> b] :
        p \in ProfileIds, b \in {[set |-> 2], [delta |-> 0 - 3]}}

\* serve.py, update_result_count, lines 456-472, as one step of the proxy
\* process, for the profile, name and body of a request.  The proxy's
\* temporary file has the scanner's name (results.json.tmp); the step is taken
\* while the scanner is not between opening and renaming its own, so the two
\* never write one temporary file.
update_result_count(prof, name, body, now) ==
    /\ pc \notin {"save_dump", "save_replace"}
    /\ LET all_data == serve_load_all_results(results)
           pl == _read_profile_payload(all_data, prof, now)
           cnts == IF "counts" \in DOMAIN pl THEN pl.counts ELSE <<>>
           old_val == CountOf(cnts, name)
           new_val == Max(0, IF "set" \in DOMAIN body THEN body.set ELSE old_val + body.delta)
           pl1 == Update(pl, [counts |-> DictSet(cnts, name, new_val), timestamp |-> now])
           pl2 == _recompute_derived_fields(pl1, names)
       IN  /\ results' = JsonFile(_write_profile_payload(all_data, prof, pl2))
           /\ written' = [written EXCEPT ![prof] = <<pl2>>]
    /\ tmp' = AbsentFile
    /\ UNCHANGED <<pc, kb_listener, listenerVars, pos, localVars, counts, scanned, writes,
                   names, profile, inventory, cv2, pack_archi_enabled, abort>>

\* Catalog sizes of the runs that share the file with the proxy.
SharedNameCounts == {0, 1}

\* A run of the scanner and one request to the proxy.
SharedInit ==
    /\ pc = "main"
    /\ names \in {[n \in 1..len |-> n] : len \in SharedNameCounts}
    /\ \E env \in Environments :
         /\ profile = env.profile
         /\ inventory = env.inventory
         /\ cv2 = env.cv2
         /\ pack_archi_enabled = env.pack
         /\ results = env.results
    /\ kb_listener = FALSE
    /\ start_event = FALSE
    /\ search_bar_pos = None
    /\ scan_paused = FALSE
    /\ pos = None
    /\ i = 0
    /\ c = 0
    /\ matcher_failed = FALSE
    /\ counts = <<>>
    /\ scanned = 0
    /\ payload = NoPayload
    /\ save_kind = "none"
    /\ data = EmptyDict
    /\ tmp = AbsentFile
    /\ writes = <<>>
    /\ written = NothingWritten
    /\ abort = NoAbort
    /\ call \in UpdateRequests

\* The request held in call is answered, once.
SharedNext ==
    \/ Next
    \/ \E now \in Times :
         /\ call.fn = "update_result_count"
         /\ ~call.done
         /\ update_result_count(call.prof, call.name, call.body, now)
         /\ call' = [call EXCEPT !.done = TRUE]

SpecShared == SharedInit /\ [][SharedNext]_vars

\* ------------------------------------------------------- a run that goes on
\* The steps of the main thread.  The interpreter keeps running the thread
\* while it is not blocked (in start_event.wait()) and has not ended, whatever
\* the listener thread does; key presses and signals come when they come.
MainStep ==
    \/ \E files_exist \in BOOLEAN : MainStart(files_exist)
    \/ WaitForStartHotkey
    \/ \E now \in Times : ForNext(now)
    \/ WhilePaused
    \/ Sleep
    \/ \E failsafe \in BOOLEAN : Click(failsafe)
    \/ \E outcome \in Outcomes : Paste(outcome)
    \/ \E outcome \in Outcomes : Type(outcome)
    \/ Settle
    \/ \E outcome \in Outcomes : Detect(outcome)
    \/ \E now \in Times : Record(now)
    \/ SaveLoad
    \/ SaveOpen
    \/ \E ok \in BOOLEAN : SaveDump(ok)
    \/ SaveReplace

\* Catalogs with no name, one name, and one name more than a checkpoint.
LiveInit ==
    /\ pc = "main"
    /\ names \in {[n \in 1..len |-> n] : len \in {0, 1, SAVE_EVERY + 1}}
    /\ \E env \in Environments :
         /\ profile = env.profile
         /\ inventory = env.inventory
         /\ cv2 = env.cv2
         /\ pack_archi_enabled = env.pack
         /\ results = env.results
    /\ kb_listener = FALSE
    /\ start_event = FALSE
    /\ search_bar_pos = None
    /\ scan_paused = FALSE
    /\ pos = None
    /\ i = 0
    /\ c = 0
    /\ matcher_failed = FALSE
    /\ counts = <<>>
    /\ scanned = 0
    /\ payload = NoPayload
    /\ save_kind = "none"
    /\ data = EmptyDict
    /\ tmp = AbsentFile
    /\ writes = <<>>
    /\ written = NothingWritten
    /\ abort = NoAbort
    /\ call = NoCall

SpecLive == LiveInit /\ [][Next]_vars /\ WF_vars(MainStep)

\* ---------------------------------------------- counted pause presses
\* A run of the scanner in which call counts the F10 presses on_press handled.
PauseInit ==
    /\ pc = "main"
    /\ names \in {[n \in 1..len |-> n] : len \in SharedNameCounts}
    /\ \E env \in Environments :
         /\ profile = env.profile
         /\ inventory = env.inventory
         /\ cv2 = env.cv2
         /\ pack_archi_enabled = env.pack
         /\ results = env.results
    /\ kb_listener = FALSE
    /\ start_event = FALSE
    /\ search_bar_pos = None
    /\ scan_paused = FALSE
    /\ pos = None
    /\ i = 0
    /\ c = 0
    /\ matcher_failed = FALSE
    /\ counts = <<>>
    /\ scanned = 0
    /\ payload = NoPayload
    /\ save_kind = "none"
    /\ data = EmptyDict
    /\ tmp = AbsentFile
    /\ writes = <<>>
    /\ written = NothingWritten
    /\ abort = NoAbort
    /\ call = [fn |-> "on_press", presses |-> 0]

SpecPause == PauseInit /\ [][Next]_vars

\* ------------------------------------------------- exceptions in on_press
\* The calls of on_press that can raise: pyautogui.position() (line 110) and
\* the print of log (lines 111, 112 and 118; OSError or ValueError when the
\* standard output of the scanner is closed or its pipe is broken).  Line 119
\* catches the exception and on_press returns: what was assigned before the
\* raising call stays assigned, what follows it is skipped.
HandlerCalls == {"position", "log_anchor", "log_pause"}

on_press_raises(mouse, at) ==
    /\ kb_listener
    /\ at \in {"position", "log_anchor"} => AnchorHotkeyActs
    /\ search_bar_pos' = IF at = "log_anchor" THEN mouse ELSE search_bar_pos
    /\ scan_paused' = IF at = "log_pause" THEN ~scan_paused ELSE scan_paused
    /\ UNCHANGED <<pc, start_event, pos, localVars, counts, scanned, fileVars, inputVars,
                   kb_listener, abort>>

ListenerNext ==
    \/ Next
    \/ \E mouse \in MousePositions, at \in HandlerCalls : on_press_raises(mouse, at)

SpecListener == Init /\ [][ListenerNext]_vars

\* ------------------------------------------------ helpers called alone
\* No scan runs: the state of main() and of the listener before main starts,
\* with no store file.
NoScan ==
    /\ pc = "call"
    /\ names = <<>>
    /\ profile = "default"
    /\ inventory = [n \in 1..MaxNames |-> 0]
    /\ cv2 = TRUE
    /\ pack_archi_enabled = FALSE
    /\ kb_listener = FALSE
    /\ start_event = FALSE
    /\ search_bar_pos = None
    /\ scan_paused = FALSE
    /\ pos = None
    /\ i = 0
    /\ c = 0
    /\ matcher_failed = FALSE
    /\ counts = <<>>
    /\ scanned = 0
    /\ payload = NoPayload
    /\ save_kind = "none"
    /\ data = EmptyDict
    /\ results = AbsentFile
    /\ tmp = AbsentFile
    /\ writes = <<>>
    /\ written = NothingWritten
    /\ abort = NoAbort

\* The call held in call returns result.
Return(fn, result) ==
    /\ pc = "call"
    /\ call.fn = fn
    /\ ~call.done
    /\ call' = [call EXCEPT !.done = TRUE, !.result = result]
    /\ UNCHANGED <<pc, names, profile, inventory, cv2, pack_archi_enabled, kb_listener,
                   listenerVars, pos, localVars, counts, scanned, fileVars, abort>>

\* ------------------------------------------------- the editors of counts
\* The writers of counts: the scanner's upsert, the proxy's update and trade
\* requests, and the dashboard's update_quantity and apply_trade_commit.  call
\* holds mem, the dashboard's State.counts (of its profile, default), which
\* the dashboard saves whole, and clamped: the dashboard has saved a count
\* that the edit alone would have taken below zero.  An edit that raises a
\* count is taken while the count stays within MaxEdited.

\* Everything but call.
sessionVars == <<pc, names, profile, inventory, cv2, pack_archi_enabled, kb_listener,
                 listenerVars, pos, localVars, counts, scanned, fileVars, abort>>

\* for n in ns: counts[n] = max(0, counts.get(n, 0) + d), or, with first,
\* counts[n] = max(0, counts.get(n, 0)) + d (serve.py:569).
RECURSIVE ForEachName(_, _, _, _)
ForEachName(cnts, ns, d, first) ==
    IF ns = <<>> THEN cnts
    ELSE LET old == CountOf(cnts, Head(ns))
             new == IF first THEN Max(0, old) + d ELSE Max(0, old + d)
         IN  ForEachName(DictSet(cnts, Head(ns), new), Tail(ns), d, first)

\* serve.py, apply_trade, lines 555-576: names given lose one, down to 0,
\* then names received gain one.
apply_trade(prof, give, receive, now) ==
    /\ LET all_data == serve_load_all_results(results)
           pl == _read_profile_payload(all_data, prof, now)
           cnts == IF "counts" \in DOMAIN pl THEN pl.counts ELSE <<>>
           given == ForEachName(cnts, give, 0 - 1, FALSE)
           received == ForEachName(given, receive, 1, TRUE)
           pl1 == Update(pl, [counts |-> received, timestamp |-> now])
           pl2 == _recompute_derived_fields(pl1, names)
       IN  /\ \A k \in 1..Len(receive) : CountOf(received, receive[k]) <= MaxEdited
           /\ results' = JsonFile(_write_profile_payload(all_data, prof, pl2))
           /\ written' = [written EXCEPT ![prof] = <<pl2>>]
    /\ UNCHANGED <<pc, kb_listener, listenerVars, pos, localVars, counts, scanned, writes, tmp,
                   names, profile, inventory, cv2, pack_archi_enabled, abort, call>>

\* state.py, _load_profile_data, lines 505-513, for the profile prof.
_load_profile_data(prof) ==
    /\ LET all_data == state_load_all_results(results)
           loaded == IF prof \in DOMAIN all_data.profiles
                        /\ "counts" \in DOMAIN all_data.profiles[prof]
                     THEN all_data.profiles[prof].counts
                     ELSE <<>>
       IN  call' = [call EXCEPT !.mem = loaded]
    /\ UNCHANGED sessionVars

\* state.py, _save_profile_data, lines 515-528: the document written for the
\* counts cnts (validated_steps is left empty).
_save_profile_data(file, prof, cnts, now) ==
    LET pl == [counts |-> cnts, validatedSteps |-> <<>>, timestamp |-> now,
               scanned |-> Len(cnts), total |-> Len(names)]
    IN  state_write_profile_payload(state_load_all_results(file), prof, pl)

\* state.py, update_quantity, lines 643-647.
update_quantity(prof, name, delta, now) ==
    /\ LET current == CountOf(call.mem, name)
           cnts == DictSet(call.mem, name, Max(0, current + delta))
           doc == _save_profile_data(results, prof, cnts, now)
       IN  /\ current + delta <= MaxEdited
           /\ results' = JsonFile(doc)
           /\ written' = [written EXCEPT ![prof] = <<doc.profiles[prof]>>]
           /\ call' = [call EXCEPT !.mem = cnts, !.clamped = @ \/ current + delta < 0]
    /\ UNCHANGED <<pc, kb_listener, listenerVars, pos, localVars, counts, scanned, writes, tmp,
                   names, profile, inventory, cv2, pack_archi_enabled, abort>>

\* state.py, apply_trade_commit, lines 1291-1302; nothing is saved when both
\* lists are empty.
apply_trade_commit(prof, give, receive, now) ==
    /\ give # <<>> \/ receive # <<>>
    /\ LET given == ForEachName(call.mem, give, 0 - 1, FALSE)
           cnts == ForEachName(given, receive, 1, FALSE)
           doc == _save_profile_data(results, prof, cnts, now)
       IN  /\ \A k \in 1..Len(receive) : CountOf(cnts, receive[k]) <= MaxEdited
           /\ results' = JsonFile(doc)
           /\ written' = [written EXCEPT ![prof] = <<doc.profiles[prof]>>]
           /\ call' = [call EXCEPT !.mem = cnts,
                                   !.clamped = @ \/ \E k \in 1..Len(give) :
                                                       CountOf(call.mem, give[k]) = 0]
    /\ UNCHANGED <<pc, kb_listener, listenerVars, pos, localVars, counts, scanned, writes, tmp,
                   names, profile, inventory, cv2, pack_archi_enabled, abort>>

\* A store left by earlier runs; the dashboard has not loaded its profile.
EditInit ==
    /\ pc = "store"
    /\ results \in {AbsentFile, JsonFile(OldPayload(1)),
                    JsonFile(ProfiledDoc([default |-> ForeignPayload, kourial |-> OldPayload(1)],
                                         "default"))}
    /\ names = StoreNames
    /\ profile = "default"
    /\ inventory = [n \in 1..MaxNames |-> 0]
    /\ cv2 = TRUE
    /\ pack_archi_enabled = FALSE
    /\ kb_listener = FALSE
    /\ start_event = FALSE
    /\ search_bar_pos = None
    /\ scan_paused = FALSE
    /\ pos = None
    /\ i = 0
    /\ c = 0
    /\ matcher_failed = FALSE
    /\ counts = <<>>
    /\ scanned = 0
    /\ payload = NoPayload
    /\ save_kind = "none"
    /\ data = EmptyDict
    /\ tmp = AbsentFile
    /\ writes = <<>>
    /\ written = NothingWritten
    /\ abort = NoAbort
    /\ call = [fn |-> "edits", mem |-> <<>>, clamped |-> FALSE]

EditNext ==
    \/ \E pl \in StorePayloads : StoreUpsert("default", pl)
    \/ \E now \in Times, body \in {[set |-> 1], [set |-> 0 - 1], [delta |-> 0 - 3], [delta |-> 1]} :
         /\ "delta" \in DOMAIN body /\ body.delta > 0 =>
              CountOf(_read_profile_payload(serve_load_all_results(results), "default",
                                            now).counts, 1) < MaxEdited
         /\ update_result_count("default", 1, body, now)
         /\ UNCHANGED call
    \/ \E now \in Times, give \in {<<>>, <<1, 2>>}, receive \in {<<>>, <<2>>} :
         apply_trade("default", give, receive, now)
    \/ _load_profile_data("default")
    \/ \E now \in Times, delta \in {1, 0 - 1} : update_quantity("default", 1, delta, now)
    \/ \E now \in Times, give \in {<<>>, <<1, 2>>}, receive \in {<<>>, <<2>>} :
         apply_trade_commit("default", give, receive, now)

SpecEdits == EditInit /\ [][EditNext]_vars

\* -------------------------------------------- the launchers of the scanner
\* The proxy (serve.py) and the dashboard (state.py) each spawn scan.py and
\* keep their own reference to it: _scan_proc, a Popen guarded by _tool_lock,
\* and State.scan_pid.  call holds both, the set of the scanner processes
\* alive, the number spawned so far (the next pid) and the last reply.  A
\* request is one step: the proxy handles it under _tool_lock, the dashboard
\* runs the events of a state one at a time.
LaunchInit ==
    /\ NoScan
    /\ call = [fn |-> "launch", scan_proc |-> 0, scan_pid |-> 0, alive |-> {},
               spawned |-> 0, reply |-> "none"]

\* serve.py, _clean_tool_refs (lines 82-85) then _tool_is_running: a Popen
\* whose poll() is not None is dropped.
ProxyScanRunning == call.scan_proc # 0 /\ call.scan_proc \in call.alive

\* serve.py, local_scan_start (lines 881-891).
local_scan_start ==
    /\ call.fn = "launch"
    /\ IF ProxyScanRunning
       THEN call' = [call EXCEPT !.reply = "already running"]
       ELSE /\ call.spawned < MaxScans
            /\ call' = [call EXCEPT !.scan_proc = call.spawned + 1,
                                    !.alive = @ \cup {call.spawned + 1},
                                    !.spawned = @ + 1,
                                    !.reply = "started"]
    /\ UNCHANGED sessionVars

\* serve.py, local_scan_stop (lines 894-902): terminate() sends SIGTERM and
\* returns; the reference stays until a later request finds the process ended.
local_scan_stop ==
    /\ call.fn = "launch"
    /\ call' = [call EXCEPT !.scan_proc = IF ProxyScanRunning THEN @ ELSE 0,
                            !.reply = IF ProxyScanRunning THEN "stopped" ELSE "not running"]
    /\ UNCHANGED sessionVars

\* serve.py, local_tools_status (lines 869-878).
local_tools_status ==
    /\ call.fn = "launch"
    /\ call' = [call EXCEPT !.scan_proc = IF ProxyScanRunning THEN @ ELSE 0,
                            !.reply = IF ProxyScanRunning THEN "running" ELSE "not running"]
    /\ UNCHANGED sessionVars

\* state.py, _is_pid_running(scan_pid) (lines 679-685).
DashboardScanRunning == call.scan_pid # 0 /\ call.scan_pid \in call.alive

\* state.py, start_scan (lines 687-720); early: the process ended within the
\* 0.7 s of line 709.
start_scan(early) ==
    /\ call.fn = "launch"
    /\ IF DashboardScanRunning
       THEN /\ ~early
            /\ call' = [call EXCEPT !.reply = "already running"]
       ELSE /\ call.spawned < MaxScans
            /\ call' = [call EXCEPT !.scan_pid = IF early THEN 0 ELSE call.spawned + 1,
                                    !.alive = IF early THEN @ ELSE @ \cup {call.spawned + 1},
                                    !.spawned = @ + 1,
                                    !.reply = IF early THEN "failed" ELSE "started"]
    /\ UNCHANGED sessionVars

\* state.py, stop_scan (lines 722-732): SIGTERM is sent and scan_pid is
\* cleared at once, whether or not the process has ended.
stop_scan ==
    /\ call.fn = "launch"
    /\ call' = [call EXCEPT !.scan_pid = 0,
                            !.reply = IF call.scan_pid = 0 THEN "not running" ELSE "stopped"]
    /\ UNCHANGED sessionVars

\* state.py, refresh_scan_status (lines 662-671).
refresh_scan_status ==
    /\ call.fn = "launch"
    /\ call' = [call EXCEPT !.scan_pid = IF DashboardScanRunning THEN @ ELSE 0,
                            !.reply = IF DashboardScanRunning THEN "running" ELSE "not running"]
    /\ UNCHANGED sessionVars

\* A scanner process ends: main() returned or raised, or a signal ended it.
ScanExit(pid) ==
    /\ call.fn = "launch"
    /\ pid \in call.alive
    /\ call' = [call EXCEPT !.alive = @ \ {pid}]
    /\ UNCHANGED sessionVars

LaunchNext ==
    \/ local_scan_start
    \/ local_scan_stop
    \/ local_tools_status
    \/ \E early \in BOOLEAN : start_scan(early)
    \/ stop_scan
    \/ refresh_scan_status
    \/ \E pid \in 1..MaxScans : ScanExit(pid)

SpecLaunch == LaunchInit /\ [][LaunchNext]_vars

\* ------------------------------------------------------ _resolve_profile
\* A str is the sequence of its characters; None and "" are both <<>>, which
\* every test of these functions (not name, if profile, x or y) treats alike.
\* The characters: a lower-case and an upper-case letter, a digit, the two
\* signs that are kept, a blank and a sign that is not kept.
Chars == {"a", "B", "1", "_", "-", " ", "!"}
MaxStrLen == 2
Texts == UNION {[1..n -> Chars] : n \in 0..MaxStrLen}
ShortTexts == {<<>>, <<"!">>, <<"B">>}

DefaultText == <<"d", "e", "f", "a", "u", "l", "t">>

\* str.isalnum, str.isspace and str.lower on one character.
IsAlnum(ch) == ch \in {"a", "b", "B", "1"}
IsSpace(ch) == ch = " "
Lower(ch) == IF ch = "B" THEN "b" ELSE ch

RECURSIVE LStrip(_)
LStrip(s) == IF Len(s) > 0 /\ IsSpace(Head(s)) THEN LStrip(Tail(s)) ELSE s
RECURSIVE RStrip(_)
RStrip(s) ==
    IF Len(s) > 0 /\ IsSpace(s[Len(s)]) THEN RStrip(SubSeq(s, 1, Len(s) - 1)) ELSE s
\* str.strip and str.lower
Strip(s) == RStrip(LStrip(s))
LowerCase(s) == [k \in 1..Len(s) |-> Lower(s[k])]

\* Mutant: the sign "!" is kept as well.
KeptCharOrBang(ch) == IsAlnum(ch) \/ ch \in {"_", "-", "!"}

\* Line 335: ch.isalnum() or ch in {"_", "-"}
KeptChar(ch) == IsAlnum(ch) \/ ch \in {"_", "-"}

_safe_profile(name) ==
    IF name = <<>>
    THEN None
    ELSE LET raw == LowerCase(Strip(name))
         IN  SelectSeq(raw, KeptChar)

\* Mutant: the later value wins.
OrElseLater(a, b) == IF b # <<>> THEN b ELSE a

\* a or b, and "if a: return a", then b
OrElse(a, b) == IF a # <<>> THEN a ELSE b

\* dict.get(k) on a JSON object
Get(d, k) == IF k \in DOMAIN d THEN d[k] ELSE None

\* Lines 348-358: metamob.config.json.
ConfigProfile(cfg) ==
    IF cfg.st = "json"
    THEN _safe_profile(OrElse(Get(cfg.data, "profile"),
                              OrElse(Get(cfg.data, "activeProfile"),
                                     Get(cfg.data, "defaultProfile"))))
    ELSE None

\* Lines 360-369: results.json; any exception of the block is passed over.
StoreActiveProfile(store) ==
    IF store.st = "json" THEN _safe_profile(Get(store.data, "activeProfile")) ELSE None

_resolve_profile(arg, env, cfg, store) ==
    IF arg # <<>>
    THEN OrElse(_safe_profile(arg), DefaultText)
    ELSE OrElse(_safe_profile(env),
                OrElse(ConfigProfile(cfg),
                       OrElse(StoreActiveProfile(store), DefaultText)))

CfgKeys == {"profile", "activeProfile", "defaultProfile"}
\* The configuration files that declare the profile t under one key, and one
\* whose first key holds a value that sanitizes to nothing.
ConfigFiles(ts) ==
    {AbsentFile, CorruptFile, JsonFile([profile |-> <<"!">>, activeProfile |-> <<"a">>])}
        \cup {JsonFile([x \in {k} |-> t]) : k \in CfgKeys, t \in ts}
StoreFiles(ts) ==
    {AbsentFile, ScalarFile} \cup {JsonFile([activeProfile |-> t]) : t \in ts}

\* The values of source k when source r is the one drawn from all of Texts.
SourceTexts(k, r) == IF k = r THEN Texts ELSE ShortTexts

ResolveInit ==
    /\ NoScan
    /\ \E r \in 1..4 :
         \E a \in SourceTexts(1, r), e \in SourceTexts(2, r),
            cf \in ConfigFiles(SourceTexts(3, r)), st \in StoreFiles(SourceTexts(4, r)) :
           call = [fn |-> "_resolve_profile", done |-> FALSE, result |-> None,
                   arg |-> a, env |-> e, cfg |-> cf, store |-> st]

ResolveNext ==
    Return("_resolve_profile", _resolve_profile(call.arg, call.env, call.cfg, call.store))

SpecResolve == ResolveInit /\ [][ResolveNext]_vars

\* ------------------------------------------------------- _dedup_overlaps
IOU_THRESHOLD_TENTHS == 6

Min(a, b) == IF a <= b THEN a ELSE b
\* _Box(left, top, width, height)
_Box(l, t, w, h) == [left |-> l, top |-> t, width |-> w, height |-> h]

\* _rect_iou, lines 171-178: inter and union.
Inter(a, b) ==
    LET inter_w == Max(0, Min(a.left + a.width, b.left + b.width) - Max(a.left, b.left))
        inter_h == Max(0, Min(a.top + a.height, b.top + b.height) - Max(a.top, b.top))
    IN  inter_w * inter_h
UnionArea(a, b) == a.width * a.height + b.width * b.height - Inter(a, b)

\* Mutant: a pair at the threshold is kept.
IouAtMost(a, b, tenths) ==
    IF UnionArea(a, b) = 0 THEN 0 <= tenths ELSE 10 * Inter(a, b) <= tenths * UnionArea(a, b)

\* _rect_iou(a, b) < iou_threshold, the threshold given in tenths.  inter and
\* union are ints and their quotient is the correctly rounded double, so for
\* these sizes the comparison with the double 0.6 is the comparison of the
\* fractions.
IouBelow(a, b, tenths) ==
    IF UnionArea(a, b) = 0 THEN 0 < tenths ELSE 10 * Inter(a, b) < tenths * UnionArea(a, b)

\* Line 185: sorted(boxes, key=lambda b: (b.left, b.top)); the sort is stable.
KeyLE(a, b) == a.left < b.left \/ (a.left = b.left /\ a.top <= b.top)
RECURSIVE InsertByKey(_, _)
InsertByKey(s, b) ==
    IF Len(s) = 0 THEN <<b>>
    ELSE IF KeyLE(Head(s), b) THEN <<Head(s)>> \o InsertByKey(Tail(s), b)
    ELSE <<b>> \o s
RECURSIVE SortedByKey(_)
SortedByKey(s) ==
    IF Len(s) = 0 THEN <<>>
    ELSE InsertByKey(SortedByKey(SubSeq(s, 1, Len(s) - 1)), s[Len(s)])

\* Lines 186-189.
RECURSIVE KeepLoop(_, _, _)
KeepLoop(kept, rest, tenths) ==
    IF Len(rest) = 0 THEN kept
    ELSE LET b == Head(rest)
         IN  IF \A k \in 1..Len(kept) : IouBelow(b, kept[k], tenths)
             THEN KeepLoop(Append(kept, b), Tail(rest), tenths)
             ELSE KeepLoop(kept, Tail(rest), tenths)

_dedup_overlaps(boxes, tenths) ==
    IF Len(boxes) = 0 THEN boxes ELSE KeepLoop(<<>>, SortedByKey(boxes), tenths)

\* Candidate boxes: a 16x16 template found at scales 1.0 and 1.15 (three boxes,
\* two of them at one place), a pair overlapping at ratio 0.7, a pair
\* overlapping at ratio 0.6, and a box apart from all of them.
BoxChoices ==
    { _Box(0, 0, 16, 16), _Box(0, 0, 18, 18), _Box(2, 2, 18, 18),
      _Box(40, 0, 17, 1), _Box(43, 0, 17, 1),
      _Box(40, 20, 4, 1), _Box(41, 20, 4, 1),
      _Box(80, 80, 16, 16) }
MaxBoxes == 3

DedupInit ==
    /\ NoScan
    /\ \E n \in 0..MaxBoxes : \E bs \in [1..n -> BoxChoices] :
         call = [fn |-> "_dedup_overlaps", done |-> FALSE, result |-> None, boxes |-> bs]

DedupNext == Return("_dedup_overlaps", _dedup_overlaps(call.boxes, IOU_THRESHOLD_TENTHS))

SpecDedup == DedupInit /\ [][DedupNext]_vars

\* -------------------------------------- _count_icons_on_screen_multiscale
MIN_TEMPLATE_WH == 12
\* SCALE_FACTORS, in hundredths.
SCALE_PERCENTS == <<75, 85, 100, 115, 130>>

\* Lines 261-262: max(1, int(w * s)).  For the sizes below the float product
\* truncates to the integer quotient.
ScaledSize(w, pct) == Max(1, (w * pct) \div 100)

\* Mutant: small templates are matched as well.
ScaleUsedAnySize(w_s, h_s, W_img, H_img) == ~(w_s > W_img \/ h_s > H_img)

\* Lines 263-264 and 268-269: the scale is not skipped.
ScaleUsed(w_s, h_s, W_img, H_img) ==
    /\ ~(w_s < MIN_TEMPLATE_WH \/ h_s < MIN_TEMPLATE_WH)
    /\ ~(w_s > W_img \/ h_s > H_img)

\* Lines 272-276.  matchTemplate scores every placement of the resized
\* template inside the image, and np.where lists those at or above the
\* threshold row by row; n of them lie along the diagonal from the origin.
BoxesAtScale(w_s, h_s, W_img, H_img, n) ==
    LET places == Min(n, Min(W_img - w_s, H_img - h_s) + 1)
    IN  [j \in 1..places |-> _Box(0 + (j - 1), 0 + (j - 1), w_s, h_s)]

\* Lines 258-277: the candidate boxes, scale after scale.
RECURSIVE Candidates(_, _, _, _, _, _)
Candidates(k, w, h, W_img, H_img, hits) ==
    IF k > Len(SCALE_PERCENTS) THEN <<>>
    ELSE LET w_s == ScaledSize(w, SCALE_PERCENTS[k])
             h_s == ScaledSize(h, SCALE_PERCENTS[k])
         IN  (IF ScaleUsed(w_s, h_s, W_img, H_img)
              THEN BoxesAtScale(w_s, h_s, W_img, H_img, hits[k])
              ELSE <<>>)
             \o Candidates(k + 1, w, h, W_img, H_img, hits)

\* Template and capture sizes, and per scale how many placements score at or
\* above the threshold.
TemplateSizes == {1, 14, 16, 20}
RegionSizes == {16, 24}
MaxHits == 2

MatchInit ==
    /\ NoScan
    /\ \E w \in TemplateSizes, h \in TemplateSizes, W_img \in RegionSizes, H_img \in RegionSizes :
         \E hits \in [1..Len(SCALE_PERCENTS) -> 0..MaxHits] :
           call = [fn |-> "multiscale", done |-> FALSE, result |-> None,
                   w |-> w, h |-> h, W_img |-> W_img, H_img |-> H_img, hits |-> hits]

\* _count_icons_on_screen_multiscale with OpenCV and a loaded template: the
\* candidates of lines 258-277 and the count returned by line 286.
MatchNext ==
    LET boxes == Candidates(1, call.w, call.h, call.W_img, call.H_img, call.hits)
    IN  Return("multiscale",
               [candidates |-> boxes,
                count |-> Len(_dedup_overlaps(boxes, IOU_THRESHOLD_TENTHS))])

SpecMatch == MatchInit /\ [][MatchNext]_vars

\* ----------------------------------------------------------- gather_names
\* The catalog is the list under "zones"; a zone is the list under
\* "souszones", a subzone the list under "archimonstres" (a missing key is an
\* empty list).  An entry is the value under "nom": a str, or (str = FALSE)
\* a value of another type or no value.
Entries ==
    { [nom |-> "Fizz", str |-> TRUE], [nom |-> "Buzz", str |-> TRUE],
      [nom |-> "", str |-> TRUE], [nom |-> "7", str |-> FALSE] }
MaxSubzoneLen == 2
Subzones(len) == UNION {[1..n -> Entries] : n \in 0..len}

\* Line 86: not (not name or not isinstance(name, str))
IsName(e) == e.nom # "" /\ e.str

\* Mutant: every name is taken as new.
NotSeenEver(nms, n) == TRUE

\* Line 88: name not in seen
NotSeen(nms, n) == \A k \in 1..Len(nms) : nms[k] # n

\* The three nested loops of lines 82-84 visit the entries in this order.
RECURSIVE Flatten(_)
Flatten(ss) == IF Len(ss) = 0 THEN <<>> ELSE Head(ss) \o Flatten(Tail(ss))

\* Lines 85-90 for the entries in turn; seen is the set of the names so far.
RECURSIVE GatherLoop(_, _)
GatherLoop(entries, nms) ==
    IF Len(entries) = 0 THEN nms
    ELSE LET e == Head(entries)
         IN  IF IsName(e) /\ NotSeen(nms, e.nom)
             THEN GatherLoop(Tail(entries), Append(nms, e.nom))
             ELSE GatherLoop(Tail(entries), nms)

gather_names(catalog) == GatherLoop(Flatten(Flatten(catalog)), <<>>)

\* Catalogs of two zones, the first of two subzones, the second of one.
GatherInit ==
    /\ NoScan
    /\ \E sa \in Subzones(MaxSubzoneLen), sb \in Subzones(MaxSubzoneLen), sc \in Subzones(1) :
         call = [fn |-> "gather_names", done |-> FALSE, result |-> None,
                 catalog |-> << <<sa, sb>>, <<sc>> >>]

GatherNext == Return("gather_names", gather_names(call.catalog))

SpecGather == GatherInit /\ [][GatherNext]_vars

\* ------------------------------------------------- make_payload alone
PayloadNames == {"A", "B", "C"}
MaxCount == 5
\* The counts dicts over these names: keys in any order of insertion, values
\* from -1 (no Matcher returns it) to MaxCount.
CountsOver(keys) == [1..Len(keys) -> (0 - 1)..MaxCount]
KeyOrders == {ks \in UNION {[1..n -> PayloadNames] : n \in 0..Cardinality(PayloadNames)} :
                \A j, k \in 1..Len(ks) : j # k => ks[j] # ks[k]}

PayloadInit ==
    /\ NoScan
    /\ \E ks \in KeyOrders : \E vs \in CountsOver(ks) :
         call = [fn |-> "make_payload", done |-> FALSE, result |-> None,
                 counts |-> [k \in 1..Len(ks) |-> <<ks[k], vs[k]>>]]

PayloadNext ==
    \E now \in Times :
        Return("make_payload",
               make_payload(DictKeys(call.counts), call.counts, Len(call.counts), now, TRUE))

SpecPayload == PayloadInit /\ [][PayloadNext]_vars

\* ------------------------------------- click_and_type: the field's content
\* The search field is [chars, selected]: its text, and whether all of it is
\* selected.  pyautogui and pyperclip calls do what their documentation says
\* or raise; typewrite enters the characters of its argument one by one and
\* may raise between two of them.

\* Mutant: Ctrl+V inserts at the end even when the text is selected.
KeyCtrlVAppends(field, clipboard) ==
    [chars |-> field.chars \o clipboard, selected |-> FALSE]

\* Line 158, pyautogui.hotkey('ctrl', 'v'): the clipboard replaces the
\* selection, or goes in at the cursor (the end) when nothing is selected.
KeyCtrlV(field, clipboard) ==
    [chars |-> IF field.selected THEN clipboard ELSE field.chars \o clipboard,
     selected |-> FALSE]

\* click_and_type, lines 153-166, after the focus click: paste_fault and
\* type_fault name the step of each path that raises, if any; typed is the number of characters
\* typewrite entered before it raised.  The result is the field, the path
\* that ran last and whether an exception left the function.
replace_field(text, field, clipboard, paste_fault, type_fault, typed) ==
    LET selectAll(f) == [f EXCEPT !.selected = TRUE]
        backspace(f) == IF f.selected THEN [chars |-> <<>>, selected |-> FALSE]
                        ELSE [chars |-> SubSeq(f.chars, 1, Len(f.chars) - 1),
                              selected |-> FALSE]
        enter(f, n) == [chars |-> (IF f.selected THEN <<>> ELSE f.chars) \o SubSeq(text, 1, n),
                        selected |-> f.selected /\ n = 0]
        clip1 == IF paste_fault = "copy" THEN clipboard ELSE text
        p1 == IF paste_fault \in {"copy", "ctrl_a"} THEN field ELSE selectAll(field)
        p2 == IF paste_fault = "none" THEN KeyCtrlV(p1, clip1) ELSE p1
        t1 == IF type_fault \in {"log", "ctrl_a"} THEN p2 ELSE selectAll(p2)
        t2 == IF type_fault \in {"log", "ctrl_a", "backspace"} THEN t1 ELSE backspace(t1)
        t3 == CASE type_fault = "none" -> enter(t2, Len(text))
                [] type_fault = "typewrite" -> enter(t2, typed)
                [] OTHER -> t2
    IN  IF paste_fault = "none"
        THEN [field |-> p2, path |-> "paste", raised |-> FALSE]
        ELSE [field |-> t3, path |-> "type", raised |-> type_fault # "none"]

FieldInit ==
    /\ NoScan
    /\ \E text \in Texts, chars \in ShortTexts, selected \in BOOLEAN, clipboard \in ShortTexts,
          paste_fault \in {"none", "copy", "ctrl_a", "ctrl_v"},
          type_fault \in {"none", "log", "ctrl_a", "backspace", "typewrite"} :
         /\ paste_fault = "none" => type_fault = "none"
         /\ \E typed \in 0..Len(text) :
              /\ type_fault # "typewrite" => typed = 0
              /\ type_fault = "typewrite" => typed < Max(1, Len(text))
              /\ call = [fn |-> "click_and_type", done |-> FALSE, result |-> None,
                         text |-> text, field |-> [chars |-> chars, selected |-> selected],
                         clipboard |-> clipboard, paste_fault |-> paste_fault,
                         type_fault |-> type_fault, typed |-> typed]

FieldNext ==
    Return("click_and_type",
           replace_field(call.text, call.field, call.clipboard, call.paste_fault,
                         call.type_fault, call.typed))

SpecField == FieldInit /\ [][FieldNext]_vars

\* ================================================================ claims
\* What a reader of the store finds for profile q: <<entry>>, or <<>>.
StoredEntry(file, q) ==
    LET d == _load_all_results(file)
    IN  IF q \in DOMAIN d.profiles THEN <<d.profiles[q]>> ELSE <<>>

LastWrite == writes[Len(writes)]
FinalWrites == {j \in 1..Len(writes) : writes[j].kind = "final"}
CheckpointWrites == {j \in 1..Len(writes) : writes[j].kind = "checkpoint"}
\* The scan loop was entered (line 454 returned).
LoopEntered == pos # None
\* The process ended by itself, not by a signal.
EndedByItself == pc \in {"Completed", "Interrupted", "Uncaught"}
\* The positions at which the loop drives input or runs the Matcher.
WorkSteps == {"click", "paste", "type", "detect"}

\* C1: once the pointer fail-safe has been raised in a scan cycle, the run ends
\* in Interrupted and its last store write is the final write, holding the
\* counts recorded so far under the active profile.
C1_FailSafeEndsInterruptedWithFinalWrite ==
    (abort # NoAbort /\ EndedByItself) =>
        /\ pc = "Interrupted"
        /\ writes # <<>>
        /\ LastWrite.kind = "final"
        /\ LastWrite.scanned = scanned
        /\ StoredEntry(results, profile) # <<>>
        /\ StoredEntry(results, profile)[1].counts = counts

\* C2: every run that entered the scan loop and has ended, however it ended,
\* made exactly one final write, and that write holds everything recorded.
C2_ExactlyOneFinalWriteOnEveryExit ==
    (LoopEntered /\ pc \in Terminal) =>
        /\ Cardinality(FinalWrites) = 1
        /\ LastWrite.kind = "final"
        /\ LastWrite.scanned = scanned

\* C3: the j-th checkpoint write is made at scanned = j * SAVE_EVERY, no due
\* checkpoint is skipped, the final write comes last, once, with scanned = N,
\* after floor(N / SAVE_EVERY) checkpoints; K = 12, N = 30 gives 12, 24, 30.
C3_CheckpointsAtMultiplesThenFinal ==
    /\ \A j \in CheckpointWrites : writes[j].scanned = j * SAVE_EVERY
    /\ \A j \in FinalWrites :
         j = Len(writes) /\ pc = "Completed" /\ writes[j].scanned = Len(names)
    /\ (pc \in InTry /\ save_kind # "checkpoint") =>
         Cardinality(CheckpointWrites) = scanned \div SAVE_EVERY
    /\ (pc \in InTry /\ save_kind = "checkpoint") =>
         /\ scanned % SAVE_EVERY = 0
         /\ Cardinality(CheckpointWrites) = (scanned \div SAVE_EVERY) - 1
    /\ pc = "Completed" =>
         /\ Len(writes) = (Len(names) \div SAVE_EVERY) + 1
         /\ LastWrite.kind = "final"
         /\ (SAVE_EVERY = 12 /\ Len(names) = 30) =>
              [j \in 1..Len(writes) |-> writes[j].scanned] = <<12, 24, 30>>

C3_Witness ==
    /\ pc = "Completed"
    /\ Len(names) > 2 * SAVE_EVERY
    /\ Len(writes) = 3

\* C4: a Matcher exception is followed by the recording of count 0 for that
\* name and the increment of scanned, and the loop goes on (to the next name or
\* to the checkpoint due); nothing but a signal ends the run at that point.
C4_MatcherFailureRecordsZeroAndContinues ==
    [][ /\ (pc = "detect" /\ pc' # pc /\ pc' \notin {"Interrupted", "Killed"}) =>
             /\ pc' = "record"
             /\ matcher_failed' => c' = 0
        /\ (pc = "record" /\ matcher_failed /\ pc' # pc /\ pc' \notin {"Interrupted", "Killed"}) =>
             /\ DictHas(counts', names[i])
             /\ DictGet(counts', names[i]) = 0
             /\ scanned' = scanned + 1
             /\ pc' \in {"for", "save_load"} ]_vars

\* A name the game shows icons for has count 0 on record, and the loop is at
\* the next name.
C4_Witness ==
    /\ pc = "click"
    /\ i >= 2
    /\ inventory[names[i - 1]] > 0
    /\ DictHas(counts, names[i - 1])
    /\ DictGet(counts, names[i - 1]) = 0

\* C5 as claimed: whenever the pause flag is set the loop is at no step that
\* drives input or runs the Matcher.
C5_NoWorkWhilePaused ==
    (scan_paused /\ pc \notin Terminal) => pc \notin WorkSteps

\* C5 amended: the flag is read once per name, at the top of the iteration; a
\* name's cycle starts only from a read that found the flag clear, a read that
\* finds it set goes to the polling sleep, and the polling sleep only leads
\* back to the read.
C5_CycleStartsOnlyUnpaused ==
    [][ /\ (pc' = "click" /\ pc # "click") => (pc = "while" /\ ~scan_paused)
        /\ (pc = "while" /\ scan_paused /\ pc' # pc /\ pc' \notin {"Interrupted", "Killed"}) =>
             pc' = "sleep"
        /\ (pc = "sleep" /\ pc' # pc /\ pc' \notin {"Interrupted", "Killed"}) =>
             pc' = "while"
        /\ (pc' \in WorkSteps /\ pc \notin WorkSteps /\ pc # "settle") => pc = "while" ]_vars

C5_Witness ==
    /\ pc = "sleep"
    /\ scan_paused
    /\ scanned > 0

C7_NothingBeforeAnchor ==
    /\ pc \in InTry => (start_event /\ search_bar_pos # None /\ pos = search_bar_pos)
    /\ ~start_event =>
         /\ pc \in {"main", "wait", "Fatal", "Interrupted", "Killed"}
         /\ pos = None
         /\ counts = <<>>
         /\ scanned = 0
         /\ writes = <<>>
         /\ tmp = AbsentFile
         /\ written = NothingWritten

\* Blocked at the wait with the listener running, pause already toggled.
C7_Witness ==
    /\ pc = "wait"
    /\ ~start_event
    /\ kb_listener
    /\ scan_paused

\* C8: an upsert to profile p leaves what the store holds for every other
\* profile as it was; so each profile reads back as the payload last written
\* to it, whatever was written to other profiles since.
C8_UpsertLeavesOtherProfiles ==
    /\ [][ \A q \in ProfileIds \ {profile'} :
             StoredEntry(results', q) = StoredEntry(results, q) ]_vars
    /\ [](\A q \in ProfileIds : written[q] # <<>> => StoredEntry(results, q) = written[q])

\* Two profiles written, the earlier one different from the later one.
C8_Witness ==
    /\ pc = "store"
    /\ \E q \in ProfileIds \ {profile} :
         /\ written[q] # <<>>
         /\ written[profile] # <<>>
         /\ written[q] # written[profile]
         /\ StoredEntry(results, q) = written[q]

\* C9: after upsert(p, payload) the document is a complete JSON object whose
\* activeProfile is p and whose entry for p is payload, field for field.
C9_UpsertSetsActiveAndEntry ==
    (pc = "store" /\ payload # NoPayload) =>
        /\ results.st = "json"
        /\ results.data.activeProfile = profile
        /\ results.data.activeProfile \in DOMAIN results.data.profiles
        /\ results.data.profiles[profile] = payload
        /\ DOMAIN results.data.profiles[profile] = DOMAIN payload

\* An entry with a foreign field was replaced.
C9_Witness ==
    /\ pc = "store"
    /\ profile = "default"
    /\ payload # NoPayload
    /\ "kourial" \in DOMAIN results.data.profiles
    /\ written["kourial"] = <<>>

\* C10: the store file changes only in the rename of a completely written
\* temporary file, to the document the upsert computed from it; every other
\* step, a crash at any point of the upsert included, leaves it as it was.
C10_StoreReplacedOnlyByCompleteRename ==
    [][ results' # results =>
          /\ pc = "save_replace"
          /\ tmp.st = "json"
          /\ results' = tmp
          /\ results'.data = data
          /\ StoredEntry(results', profile) = <<payload>> ]_vars

\* A run ended in the middle of writing the temporary file of its second
\* checkpoint: the store holds the first one.
C10_Witness ==
    /\ pc \in {"Killed", "Interrupted", "Uncaught"}
    /\ tmp = CorruptFile
    /\ Len(writes) = 1
    /\ results.st = "json"
    /\ StoredEntry(results, profile) = written[profile]
    /\ scanned = 2 * SAVE_EVERY

\* A document of the old flat format: a payload at top level, no profiles.
IsFlat(file) ==
    /\ file.st = "json"
    /\ "counts" \in DOMAIN file.data
    /\ "profiles" \notin DOMAIN file.data

\* A document that exists and is not a JSON object: cut short or otherwise
\* not JSON, not readable, or JSON of another type.
IsCorrupted(file) == file.st \in {"corrupt", "list", "scalar"}

\* The raw value each source of the resolver supplies, in order of
\* precedence: argument, environment, configuration file, store; <<>> where
\* the source is not set.
Supplied(cl) ==
    << cl.arg,
       cl.env,
       IF cl.cfg.st # "json" THEN <<>>
       ELSE IF Get(cl.cfg.data, "profile") # <<>> THEN cl.cfg.data.profile
       ELSE IF Get(cl.cfg.data, "activeProfile") # <<>> THEN cl.cfg.data.activeProfile
       ELSE Get(cl.cfg.data, "defaultProfile"),
       IF cl.store.st = "json" THEN Get(cl.store.data, "activeProfile") ELSE <<>> >>
Present(cl) == {k \in 1..4 : Supplied(cl)[k] # <<>>}
\* The highest-precedence source that is set.
Highest(cl) == CHOOSE k \in Present(cl) : \A m \in Present(cl) : k <= m
\* Lower-case, and nothing but letters, digits, underscore and hyphen.
AllowedChars == {"a", "b", "1", "_", "-", "d", "e", "f", "u", "l", "t"}
Sanitized(t) ==
    LET low == [k \in 1..Len(t) |-> IF t[k] = "B" THEN "b" ELSE t[k]]
        Allowed(ch) == ch \in AllowedChars
    IN  SelectSeq(low, Allowed)
WellFormed(t) == Len(t) > 0 /\ \A k \in 1..Len(t) : t[k] \in AllowedChars
Resolved == call.fn = "_resolve_profile" /\ call.done

\* The sum of f over the finite set S.
RECURSIVE SumOver(_, _)
SumOver(S, f) ==
    IF S = {} THEN 0
    ELSE LET x == CHOOSE y \in S : TRUE IN f[x] + SumOver(S \ {x}, f)

Deduped == call.fn = "_dedup_overlaps" /\ call.done
\* How many times box b occurs in the sequence s.
Copies(s, b) == Cardinality({k \in 1..Len(s) : s[k] = b})
Range(s) == {s[k] : k \in 1..Len(s)}
\* The input in the order p of its indices.
Permuted(s, p) == [k \in 1..Len(s) |-> s[p[k]]]

\* C11: no committed update is lost when the proxy updates the document while
\* the scanner saves: the entry last committed for a profile, by the scanner
\* or by the proxy, is the entry the store holds for it.
C11_NoCommittedUpdateLost ==
    \A q \in ProfileIds : written[q] # <<>> => StoredEntry(results, q) = written[q]

\* C12: a flat document is read as the entry of profile default, and an
\* upsert to another profile commits a document that still holds the flat
\* document, field for field, under profiles.default.
C12_FlatDocumentKeptAsDefault ==
    /\ [](IsFlat(results) => StoredEntry(results, "default") = <<results.data>>)
    /\ [][ (IsFlat(results) /\ profile' # "default") =>
             /\ results'.st = "json"
             /\ "default" \in DOMAIN results'.data.profiles
             /\ results'.data.profiles["default"] = results.data
             /\ StoredEntry(results', "default") = <<results.data>> ]_vars

\* The flat document with a field of its own is now the default entry beside
\* the written profile.
C12_Witness ==
    /\ pc = "store"
    /\ profile # "default"
    /\ written[profile] # <<>>
    /\ written["default"] = <<>>
    /\ StoredEntry(results, "default") = <<ForeignPayload>>
    /\ DOMAIN results.data.profiles = {"default", profile}

\* C13: on a corrupted or unreadable document the load raises nothing and
\* gives a store with no profiles, and the upsert that follows returns and
\* commits a document holding the written profile.
C13_CorruptedStoreIsEmptyStore ==
    [][ IsCorrupted(results) =>
          /\ ~LoadRaises(results)
          /\ _load_all_results(results).profiles = EmptyDict
          /\ pc' = "store"
          /\ results'.st = "json"
          /\ StoredEntry(results', profile') = <<payload'>> ]_vars

C15_EmptySanitizationGivesDefault ==
    Resolved =>
        /\ WellFormed(call.result)
        /\ (Present(call) # {} /\ Sanitized(Supplied(call)[Highest(call)]) = <<>>) =>
               call.result = DefaultText

\* C15 amended: the result is well formed; an argument that sanitizes to the
\* empty string gives the default; without an argument the result is the first
\* non-empty sanitized value of environment, configuration file and store, in
\* that order, and the default when there is none.
C15_EmptySanitizationFallsToNextSource ==
    Resolved =>
        LET sup == Supplied(call)
            usable == {k \in 2..4 : Sanitized(sup[k]) # <<>>}
        IN  /\ WellFormed(call.result)
            /\ (sup[1] # <<>> /\ Sanitized(sup[1]) = <<>>) => call.result = DefaultText
            /\ (sup[1] = <<>> /\ usable = {}) => call.result = DefaultText
            /\ (sup[1] = <<>> /\ usable # {}) =>
                   \E k \in usable :
                     /\ \A m \in usable : k <= m
                     /\ call.result = Sanitized(sup[k])

\* The environment value sanitizes to the empty string and the result comes
\* from the store.
C15_Witness ==
    /\ Resolved
    /\ call.arg = <<>>
    /\ call.env = <<" ", "!">>
    /\ ConfigProfile(call.cfg) = <<>>
    /\ call.cfg.st = "json"
    /\ call.result = <<"b">>
    /\ call.result # DefaultText

\* C16: the kept boxes are a sub-collection of the candidates (no box kept
\* more often than it was given), and every two of them overlap at a ratio
\* strictly below the threshold; of two candidates overlapping at 0.7 one is
\* kept.
C16_KeptBoxesOverlapBelowThreshold ==
    Deduped =>
        /\ Len(call.result) <= Len(call.boxes)
        /\ \A b \in Range(call.result) : Copies(call.result, b) <= Copies(call.boxes, b)
        /\ \A j, k \in 1..Len(call.result) :
             j # k =>
               /\ UnionArea(call.result[j], call.result[k]) > 0
               /\ 10 * Inter(call.result[j], call.result[k])
                    < IOU_THRESHOLD_TENTHS * UnionArea(call.result[j], call.result[k])
        /\ (call.boxes = <<_Box(43, 0, 17, 1), _Box(40, 0, 17, 1)>>) =>
               call.result = <<_Box(40, 0, 17, 1)>>

\* Two candidates overlapping at ratio 14/20 and a third apart: two are kept.
C16_Witness ==
    /\ Deduped
    /\ call.boxes = <<_Box(43, 0, 17, 1), _Box(80, 80, 16, 16), _Box(40, 0, 17, 1)>>
    /\ call.result = <<_Box(40, 0, 17, 1), _Box(80, 80, 16, 16)>>

\* C17: the set of kept boxes is the same for every order of the candidates.
C17_KeptSetSameForEveryOrder ==
    Deduped =>
        \A p \in Permutations(1..Len(call.boxes)) :
            Range(_dedup_overlaps(Permuted(call.boxes, p), IOU_THRESHOLD_TENTHS))
                = Range(call.result)

\* C18: every candidate box of the multi-scale Matcher is at least the
\* minimum dimension and at most the capture region in width and in height,
\* and has the size of a scale within these bounds; nothing else is emitted.
C18_CandidateSizesWithinBounds ==
    (call.fn = "multiscale" /\ call.done) =>
        LET sizes == {<<(call.w * SCALE_PERCENTS[k]) \div 100,
                        (call.h * SCALE_PERCENTS[k]) \div 100>> : k \in 1..Len(SCALE_PERCENTS)}
            within == {z \in sizes : /\ z[1] >= MIN_TEMPLATE_WH /\ z[1] <= call.W_img
                                     /\ z[2] >= MIN_TEMPLATE_WH /\ z[2] <= call.H_img}
        IN  \A j \in 1..Len(call.result.candidates) :
              LET b == call.result.candidates[j]
              IN  /\ b.width >= MIN_TEMPLATE_WH
                  /\ b.height >= MIN_TEMPLATE_WH
                  /\ b.width <= call.W_img
                  /\ b.height <= call.H_img
                  /\ <<b.width, b.height>> \in within

\* A 14x14 template in a 16x16 capture, two hits at every scale: the scales
\* 0.75 and 0.85 are too small and 1.3 is too large, 1.0 gives two boxes and
\* 1.15 the one placement that fits.
C18_Witness ==
    /\ call.fn = "multiscale"
    /\ call.done
    /\ call.w = 14 /\ call.h = 14
    /\ call.W_img = 16 /\ call.H_img = 16
    /\ \A k \in 1..Len(SCALE_PERCENTS) : call.hits[k] = MaxHits
    /\ call.result.candidates
         = <<_Box(0, 0, 14, 14), _Box(1, 1, 14, 14), _Box(0, 0, 16, 16)>>

\* C19: the result holds every name of the catalog (a non-empty str under
\* "nom") exactly once, and a name whose first appearance in the catalog, read
\* zone by zone, subzone by subzone, entry by entry, comes earlier stands
\* earlier in the result; [Fizz, Fizz, Buzz] gives [Fizz, Buzz].
C19_DistinctNamesInFirstAppearanceOrder ==
    (call.fn = "gather_names" /\ call.done) =>
        LET c1 == call.catalog
            all == c1[1][1] \o c1[1][2] \o c1[2][1]
            named == {k \in 1..Len(all) : all[k].str /\ all[k].nom # ""}
            First(n) == CHOOSE k \in named :
                          /\ all[k].nom = n
                          /\ \A m \in named : all[m].nom = n => k <= m
            out == call.result
        IN  /\ {out[k] : k \in 1..Len(out)} = {all[k].nom : k \in named}
            /\ \A j, k \in 1..Len(out) : j # k => out[j] # out[k]
            /\ \A j, k \in 1..Len(out) : j < k => First(out[j]) < First(out[k])
            /\ ([k \in 1..Len(all) |-> all[k].nom] = <<"Fizz", "Fizz", "Buzz">>
                  /\ named = 1..3) => out = <<"Fizz", "Buzz">>

\* Fizz twice in the first zone, in two subzones, and Buzz in the second.
C19_Witness ==
    /\ call.fn = "gather_names"
    /\ call.done
    /\ call.catalog = << << <<[nom |-> "Fizz", str |-> TRUE]>>,
                            <<[nom |-> "Fizz", str |-> TRUE]>> >>,
                         << <<[nom |-> "Buzz", str |-> TRUE]>> >> >>
    /\ call.result = <<"Fizz", "Buzz">>

\* C20: needed lists the names with count <= 0 and duplicates the names with
\* count > 1, each once, with extra = count - 1; totalDuplicates is the sum of
\* the extras and totalFoundItems the sum of all counts; counts {A:0, B:2, C:5}
\* give needed [A], extras B:1 and C:4, totalDuplicates 5, totalFoundItems 7.
C20_DerivedFieldsFollowCounts ==
    (call.fn = "make_payload" /\ call.done) =>
        LET cnts == call.counts
            pl == call.result
            keys == {cnts[k][1] : k \in 1..Len(cnts)}
            count == [n \in keys |-> DictGet(cnts, n)]
            lacking == {n \in keys : count[n] <= 0}
            many == {n \in keys : count[n] > 1}
        IN  /\ pl.counts = cnts
            /\ {pl.needed[k] : k \in 1..Len(pl.needed)} = lacking
            /\ Len(pl.needed) = Cardinality(lacking)
            /\ {pl.duplicates[k] : k \in 1..Len(pl.duplicates)}
                 = {[name |-> n, count |-> count[n], extra |-> count[n] - 1] : n \in many}
            /\ Len(pl.duplicates) = Cardinality(many)
            /\ pl.totalDuplicates = SumOver(many, [n \in keys |-> count[n] - 1])
            /\ pl.totalFoundItems = SumOver(keys, count)
            /\ (cnts = << <<"A", 0>>, <<"B", 2>>, <<"C", 5>> >>) =>
                 /\ pl.needed = <<"A">>
                 /\ pl.duplicates = << [name |-> "B", count |-> 2, extra |-> 1],
                                       [name |-> "C", count |-> 5, extra |-> 4] >>
                 /\ pl.totalDuplicates = 5
                 /\ pl.totalFoundItems = 7

\* The payload of counts {A:0, B:2, C:5}.
C20_Witness ==
    /\ call.fn = "make_payload"
    /\ call.done
    /\ call.counts = << <<"A", 0>>, <<"B", 2>>, <<"C", 5>> >>
    /\ call.result.totalDuplicates = 5
    /\ call.result.totalFoundItems = 7
    /\ call.result.needed = <<"A">>

\* C22: a run whose template image or catalog file is missing ends in Fatal
\* as its first step, with no listener started, no anchor, no name scanned and
\* no write to the store or to its temporary file, and stays there.
C22_MissingInputIsFatalBeforeAnything ==
    /\ [](pc = "Fatal" =>
            /\ ~kb_listener /\ ~start_event /\ search_bar_pos = None /\ pos = None
            /\ scanned = 0 /\ counts = <<>>
            /\ writes = <<>> /\ written = NothingWritten /\ tmp = AbsentFile)
    /\ [][ /\ (pc = "main" /\ pc' \notin {"main", "Killed", "Interrupted"} /\ ~kb_listener')
                => (pc' = "Fatal" /\ results' = results)
           /\ pc' = "Fatal" => pc = "main"
           /\ pc = "Fatal" => pc' = "Fatal" ]_vars

\* The run ended in Fatal beside a store left by earlier runs.
C22_Witness ==
    /\ pc = "Fatal"
    /\ results.st = "json"
    /\ Len(names) > 0

\* C23: the loop takes the names one at a time in catalog order; in every
\* state the recorded counts are those of the first `scanned` names, in that
\* order; a recorded count never changes; and every payload written to the
\* store holds exactly the first `scanned` names as the keys of counts.
C23_NamesInCatalogOrderEachOnce ==
    /\ [](/\ Len(counts) = scanned
          /\ DictKeys(counts) = SubSeq(names, 1, scanned)
          /\ pc \notin Terminal => i \in {scanned, scanned + 1} /\ i <= Len(names))
    /\ [][/\ pc' \notin Terminal => i' \in {i, i + 1}
          /\ Len(counts') \in {Len(counts), Len(counts) + 1}
          /\ \A k \in 1..Len(counts) : counts'[k] = counts[k]
          /\ Len(writes') > Len(writes) =>
                LET pl == written'[profile][1]
                IN  /\ pl.scanned = Len(pl.counts)
                    /\ DictKeys(pl.counts) = SubSeq(names, 1, pl.scanned)
                    /\ pl.counts = counts]_vars

\* A checkpoint was written in the middle of a catalog and a later name has been
\* recorded since, after a name with boxes and a name without.
C23_Witness ==
    /\ Len(writes) > 0
    /\ LastWrite.kind = "checkpoint"
    /\ scanned > LastWrite.scanned
    /\ scanned < Len(names)
    /\ \E k \in 1..scanned : counts[k][2] > 0
    /\ \E k \in 1..scanned : counts[k][2] = 0

\* C28: after an upsert has replaced the store, the top-level fields of the
\* document other than profiles and activeProfile are exactly the fields of
\* the active profile's entry, with the same values.
C28_TopLevelMirrorsActiveEntry ==
    (pc = "store" /\ payload # NoPayload) =>
        LET doc == results.data
            entry == doc.profiles[doc.activeProfile]
        IN  /\ DOMAIN doc \ {"profiles", "activeProfile"} = DOMAIN entry
            /\ \A k \in DOMAIN entry : doc[k] = entry[k]

\* The upsert of another profile replaced the mirror of an entry that holds a
\* field the scanner does not write; the entry itself is kept.
C28_Witness ==
    /\ pc = "store"
    /\ payload # NoPayload
    /\ profile = "kourial"
    /\ written["default"] = <<>>
    /\ "default" \in DOMAIN results.data.profiles
    /\ "owner" \in DOMAIN results.data.profiles["default"]
    /\ "owner" \notin DOMAIN results.data

\* C26: whatever call of the handler raised, the listener is still running,
\* the anchor is set exactly when the session is armed, and the hotkeys are
\* still handled.
C26_HandlerExceptionLeavesStateConsistent ==
    /\ []((search_bar_pos # None) <=> start_event)
    /\ [][(\E mouse \in MousePositions, at \in HandlerCalls : on_press_raises(mouse, at)) =>
            /\ kb_listener'
            /\ pc' = pc
            /\ ENABLED on_press_f10
            /\ \A mouse \in MousePositions : ENABLED on_press_f8(mouse)]_vars

\* C27: in every state the pause flag is the parity of the number of pause
\* presses handled, the presses handled before the anchor included; and the
\* scan cycle of a name starts only after an even number of presses.
C27_PauseFlagIsParityOfPresses ==
    /\ [](scan_paused <=> (call.presses % 2 = 1))
    /\ [][(pc = "while" /\ pc' = "click") => call.presses % 2 = 0]_vars
    /\ [][(pc = "while" /\ call.presses % 2 = 1) => pc' # "click"]_vars

\* Three presses were handled while the main thread waits for the anchor.
C27_Witness ==
    /\ pc = "wait"
    /\ ~start_event
    /\ call.presses = 3
    /\ scan_paused

\* C25: the type path runs only when a step of the paste path raised; when
\* the path that ran last completes, the field holds exactly the target name;
\* and an exception leaves the replacement only when a step of each path
\* raised.
C25_PasteFirstThenTypeAndFieldHoldsName ==
    call.done =>
        /\ call.result.path = "type" <=> call.paste_fault # "none"
        /\ call.result.path = "paste" <=> call.paste_fault = "none"
        /\ call.result.raised <=> (call.paste_fault # "none" /\ call.type_fault # "none")
        /\ ~call.result.raised => call.result.field.chars = call.text

\* The paste raised at Ctrl+V over a field holding other text, and the type
\* path replaced it by a two-character name.
C25_Witness ==
    /\ call.fn = "click_and_type"
    /\ call.done
    /\ call.paste_fault = "ctrl_v"
    /\ call.field.chars = <<"!">>
    /\ ~call.field.selected
    /\ Len(call.text) = 2
    /\ call.result.path = "type"
    /\ ~call.result.raised
    /\ call.result.field.chars = call.text

\* The run is not ended by the fail-safe, a signal or an uncaught exception.
NotCutShort == abort = NoAbort /\ pc \notin {"Interrupted", "Killed", "Uncaught"}

\* Every name was processed and the final write holds them all.
CompletedInFull ==
    /\ pc = "Completed"
    /\ scanned = Len(names)
    /\ writes # <<>>
    /\ LastWrite.kind = "final"
    /\ LastWrite.scanned = Len(names)
    /\ StoredEntry(results, profile) # <<>>
    /\ StoredEntry(results, profile)[1].scanned = Len(names)

C29_ThreeUpsertsAgree ==
    [][LET viaProxy == _write_profile_payload(serve_load_all_results(results),
                                              profile', payload')
           viaDashboard == state_write_profile_payload(state_load_all_results(results),
                                                       profile', payload')
       IN  /\ viaProxy = viaDashboard
           /\ pc' = "store"
           /\ results' = JsonFile(viaProxy)]_vars

\* C30: at most one scanner process started by the proxy or the dashboard is
\* alive in any state, and a start request handled while one is alive spawns
\* nothing and replies that a scan is already running.
C30_AtMostOneScanRunning ==
    /\ [](Cardinality(call.alive) <= 1)
    /\ [][call.alive # {} =>
            /\ call'.alive \subseteq call.alive
            /\ (local_scan_start \/ start_scan(FALSE)) => call'.reply = "already running"]_vars

\* C21: every count the store holds, in the entry of every profile and in the
\* top-level mirror, is at least 0, whatever writes of the scanner and edits
\* of the proxy and the dashboard came before.
C21_PersistedCountsNeverNegative ==
    results.st = "json" =>
        LET doc == _load_all_results(results)
            NonNegative(pl) ==
                "counts" \in DOMAIN pl => \A k \in 1..Len(pl.counts) : pl.counts[k][2] >= 0
        IN  /\ \A q \in DOMAIN doc.profiles : NonNegative(doc.profiles[q])
            /\ NonNegative(results.data)
            /\ \A k \in 1..Len(call.mem) : call.mem[k][2] >= 0

\* The dashboard has saved a count that a decrement or a trade would have taken
\* below zero, and the store holds 0 for it, in the entry the dashboard wrote.
C21_Witness ==
    /\ call.fn = "edits"
    /\ call.clamped
    /\ results.st = "json"
    /\ "validatedSteps" \in DOMAIN results.data
    /\ results.data.profiles["default"].counts = call.mem
    /\ \E k \in 1..Len(call.mem) : call.mem[k][2] = 0

====
